---- MODULE Spec2Model ----
(***************************************************************************)
(* Risk-gated order lifecycle of algo_trader: the RiskManager              *)
(* (risk_manager.py), the DataIngestion connection supervisor              *)
(* (data_ingestion.py) and the ExecutionEngine (execution_engine.py).      *)
(* Money amounts are whole dollars; every amount the model draws is an     *)
(* integer, for which the program's float arithmetic is exact.             *)
(***************************************************************************)
EXTENDS Integers, Sequences, FiniteSets, TLC

(* ---- configuration (config.py defaults) ---- *)
MAX_RECONNECT_ATTEMPTS == 5
RECONNECT_DELAY == 5
MAX_POSITION_SIZE == 10000
MAX_LEVERAGE == 2
DAILY_LOSS_LIMIT == 500
UNIT_PRICE == 100
LEVERAGE_BASE == 100000

(* ---- bounds of the model ---- *)
MaxDay == 1
PnlBound == 700
MaxQty == 1000
MaxTasks == 2
MaxOrders == 2
MaxRequests == 3
MaxFills == 2

(* ---- inputs ---- *)
Symbols == {"AAPL", "MSFT"}
Actions == {"BUY", "SELL"}
OrderTypes == {"MARKET", "LIMIT"}
Quantities == {50, 100, 101, 1000}
Signals == [symbol : Symbols, action : Actions, quantity : Quantities, type : OrderTypes]
TradeSignals ==
  [symbol : {"AAPL"}, action : {"BUY"}, quantity : {50, 1000}, type : OrderTypes \cup {"STOP"}]
ExecSignals ==
  [symbol : {"AAPL"}, action : {"BUY"}, quantity : {50}, type : {"MARKET", "LIMIT", "STOP"}]
    \cup [symbol : {"AAPL"}, action : {"BUY"}, quantity : {50}, type : {"LIMIT"},
          limit_price : {<<150>>}]
OrderIds == {"0"} \cup {ToString(n) : n \in 1..MaxOrders}
FillPrices == {150}
PnlDeltas == {-600, -100, 100}
QtyDeltas == {-1000, 1000}
Prices == {100, 200}

None == <<>>
(* a value of an Optional return type that is not None *)
Some(x) == <<x>>

VARIABLES
  daily_pnl, positions, current_date, circuit_breaker_active,  \* RiskManager fields
  today,                                                       \* date.today()
  applied,                    \* history: per symbol, sum of the deltas applied, latest price
  call, ret,                  \* last RiskManager or ExecutionEngine call, its return value
  _is_running,                \* DataIngestion._is_running
  ib_connected,               \* DataIngestion.ib.isConnected()
  handlers,                   \* times _on_disconnect is registered on ib.disconnectedEvent
  _reconnect_task,            \* DataIngestion._reconnect_task: 0 is None, else a task id
  created,                    \* reconnect tasks created so far (the last id handed out)
  pc, attempt, result,        \* per coroutine: position, connect()'s attempt, its return value
  tries, slept,               \* per coroutine: connectAsync calls made, delays slept in connect()
  subscriptions,              \* DataIngestion.subscriptions, in insertion order
  session,                    \* gateway sessions established so far
  mktData,                    \* symbols of the reqMktData requests live in the session
  lastNotify,                 \* what the latest _on_disconnect invocation did
  orders,                     \* ExecutionEngine.orders: order_id -> entry
  placed,                     \* orders the gateway has accepted through placeOrder
  nextOrderId,                \* the gateway's next order id
  authorized,                 \* history: intents validate_order has authorized
  fills,                      \* ExecutionEngine.fills
  cancelReqs,                 \* order ids for which the gateway received cancelOrder
  pcMain,                     \* main(): "start", "loop" (in asyncio.sleep(1)) or "done"
  marker,                     \* KILL_SWITCH_FILE.exists()
  alerts,                     \* errors handed to monitor.alert_system_error
  monitorThread,              \* Monitor's scheduler thread: "none", "started", "running"
  monitor_is_running,         \* Monitor.is_running
  exitCode,                   \* the process's exit status once main has ended
  lastCheck                   \* what the latest check_kill_switch() in the loop found

riskVars == <<daily_pnl, positions, current_date, circuit_breaker_active, applied>>
clockVars == <<today>>
callVars == <<call, ret>>
connVars == <<_is_running, ib_connected, handlers, _reconnect_task, created, pc, attempt,
              result, tries, slept, subscriptions, session, mktData, lastNotify>>
execVars == <<orders, placed, nextOrderId, authorized, fills, cancelReqs>>
mainVars == <<pcMain, marker, alerts, monitorThread, monitor_is_running, exitCode, lastCheck>>
vars == <<daily_pnl, positions, current_date, circuit_breaker_active, today, applied, call, ret,
          _is_running, ib_connected, handlers, _reconnect_task, created, pc, attempt,
          result, tries, slept, subscriptions, session, mktData, lastNotify,
          orders, placed, nextOrderId, authorized, fills, cancelReqs,
          pcMain, marker, alerts, monitorThread, monitor_is_running, exitCode, lastCheck>>

Abs(x) == IF x < 0 THEN -x ELSE x

RECURSIVE SumAbsValue(_, _)
SumAbsValue(pos, syms) ==
  IF syms = {} THEN 0
  ELSE LET s == CHOOSE x \in syms : TRUE
       IN Abs(pos[s].value) + SumAbsValue(pos, syms \ {s})

total_exposure(pos) == SumAbsValue(pos, DOMAIN pos)

estimated_value_raw(quantity) == quantity

estimated_value(quantity) == quantity * UNIT_PRICE

LossLimitReached_strict(pnl) == pnl < -DAILY_LOSS_LIMIT

LossLimitReached(pnl) == pnl <= -DAILY_LOSS_LIMIT

PositionSizeExceeded_ge(signal) == estimated_value(signal.quantity) >= MAX_POSITION_SIZE

PositionSizeExceeded(signal) == estimated_value(signal.quantity) > MAX_POSITION_SIZE

LeverageExceeded == total_exposure(positions) > MAX_LEVERAGE * LEVERAGE_BASE

BreakerCheck_sameday == circuit_breaker_active /\ today = current_date

BreakerCheck == circuit_breaker_active

(* RiskManager.validate_order: the state after the call and the returned   *)
(* pair, as a record.                                                      *)
ValidateOrder_leveragefirst(signal) ==
  IF BreakerCheck
  THEN [ret |-> <<FALSE, <<"Circuit breaker active">>>>,
        daily_pnl |-> daily_pnl, current_date |-> current_date,
        circuit_breaker_active |-> circuit_breaker_active]
  ELSE
    LET rolled == today # current_date
        pnl == IF rolled THEN 0 ELSE daily_pnl
        day == IF rolled THEN today ELSE current_date
        breaker == IF rolled THEN FALSE ELSE circuit_breaker_active
    IN IF LossLimitReached(pnl)
       THEN [ret |-> <<FALSE, <<"Daily loss limit reached", pnl>>>>,
             daily_pnl |-> pnl, current_date |-> day,
             circuit_breaker_active |-> TRUE]
       ELSE IF LeverageExceeded
       THEN [ret |-> <<FALSE, <<"Leverage limit exceeded">>>>,
             daily_pnl |-> pnl, current_date |-> day,
             circuit_breaker_active |-> breaker]
       ELSE IF PositionSizeExceeded(signal)
       THEN [ret |-> <<FALSE, <<"Position size", estimated_value(signal.quantity),
                                MAX_POSITION_SIZE>>>>,
             daily_pnl |-> pnl, current_date |-> day,
             circuit_breaker_active |-> breaker]
       ELSE [ret |-> <<TRUE, None>>,
             daily_pnl |-> pnl, current_date |-> day,
             circuit_breaker_active |-> breaker]

ValidateOrder(signal) ==
  IF BreakerCheck
  THEN [ret |-> <<FALSE, <<"Circuit breaker active">>>>,
        daily_pnl |-> daily_pnl, current_date |-> current_date,
        circuit_breaker_active |-> circuit_breaker_active]
  ELSE
    LET rolled == today # current_date
        pnl == IF rolled THEN 0 ELSE daily_pnl
        day == IF rolled THEN today ELSE current_date
        breaker == IF rolled THEN FALSE ELSE circuit_breaker_active
    IN IF LossLimitReached(pnl)
       THEN [ret |-> <<FALSE, <<"Daily loss limit reached", pnl>>>>,
             daily_pnl |-> pnl, current_date |-> day,
             circuit_breaker_active |-> TRUE]
       ELSE IF PositionSizeExceeded(signal)
       THEN [ret |-> <<FALSE, <<"Position size", estimated_value(signal.quantity),
                                MAX_POSITION_SIZE>>>>,
             daily_pnl |-> pnl, current_date |-> day,
             circuit_breaker_active |-> breaker]
       ELSE IF LeverageExceeded
       THEN [ret |-> <<FALSE, <<"Leverage limit exceeded">>>>,
             daily_pnl |-> pnl, current_date |-> day,
             circuit_breaker_active |-> breaker]
       ELSE [ret |-> <<TRUE, None>>,
             daily_pnl |-> pnl, current_date |-> day,
             circuit_breaker_active |-> breaker]

RiskValidate(signal) ==
  LET r == ValidateOrder(signal)
  IN /\ daily_pnl' = r.daily_pnl
     /\ current_date' = r.current_date
     /\ circuit_breaker_active' = r.circuit_breaker_active
     /\ ret' = r.ret
     /\ call' = <<"validate_order", signal>>
     /\ UNCHANGED <<positions, applied, today>>
     /\ UNCHANGED <<connVars, orders, placed, nextOrderId, fills, cancelReqs, mainVars>>

validate_order(signal) == RiskValidate(signal) /\ UNCHANGED authorized

(* validate_order, with the authorized intents recorded in the history *)
validate_order_logged(signal) ==
  /\ RiskValidate(signal)
  /\ authorized' = IF ValidateOrder(signal).ret[1]
                   THEN authorized \cup {signal} ELSE authorized

update_pnl_recompute(pnl) ==
  /\ Abs(daily_pnl + pnl) <= PnlBound
  /\ daily_pnl' = daily_pnl + pnl
  /\ circuit_breaker_active' = LossLimitReached(daily_pnl + pnl)
  /\ ret' = None
  /\ call' = <<"update_pnl", pnl>>
  /\ UNCHANGED <<positions, applied, current_date, today>>
  /\ UNCHANGED <<connVars, execVars, mainVars>>

update_pnl(pnl) ==
  /\ Abs(daily_pnl + pnl) <= PnlBound
  /\ daily_pnl' = daily_pnl + pnl
  /\ circuit_breaker_active' =
       IF LossLimitReached(daily_pnl + pnl) THEN TRUE ELSE circuit_breaker_active
  /\ ret' = None
  /\ call' = <<"update_pnl", pnl>>
  /\ UNCHANGED <<positions, applied, current_date, today>>
  /\ UNCHANGED <<connVars, execVars, mainVars>>

PositionOf(symbol) ==
  IF symbol \in DOMAIN positions THEN positions[symbol]
  ELSE [quantity |-> 0, value |-> 0]

(* the history of update_position calls after one more call *)
Applied(symbol, quantity, price) ==
  [s \in (DOMAIN applied) \cup {symbol} |->
     IF s = symbol
     THEN [net |-> (IF symbol \in DOMAIN applied THEN applied[symbol].net ELSE 0) + quantity,
           price |-> price]
     ELSE applied[s]]

update_position_replace(symbol, quantity, price) ==
  /\ Abs(PositionOf(symbol).quantity + quantity) <= MaxQty
  /\ positions' =
       [s \in (DOMAIN positions) \cup {symbol} |->
          IF s = symbol
          THEN [quantity |-> quantity, value |-> quantity * price]
          ELSE positions[s]]
  /\ applied' = Applied(symbol, quantity, price)
  /\ ret' = None
  /\ call' = <<"update_position", symbol, quantity, price>>
  /\ UNCHANGED <<daily_pnl, current_date, circuit_breaker_active, today>>
  /\ UNCHANGED <<connVars, execVars, mainVars>>

update_position(symbol, quantity, price) ==
  /\ Abs(PositionOf(symbol).quantity + quantity) <= MaxQty
  /\ positions' =
       [s \in (DOMAIN positions) \cup {symbol} |->
          IF s = symbol
          THEN [quantity |-> PositionOf(symbol).quantity + quantity,
                value |-> (PositionOf(symbol).quantity + quantity) * price]
          ELSE positions[s]]
  /\ applied' = Applied(symbol, quantity, price)
  /\ ret' = None
  /\ call' = <<"update_position", symbol, quantity, price>>
  /\ UNCHANGED <<daily_pnl, current_date, circuit_breaker_active, today>>
  /\ UNCHANGED <<connVars, execVars, mainVars>>

_reset_daily_counters_flagonly ==
  /\ daily_pnl' = daily_pnl
  /\ current_date' = today
  /\ circuit_breaker_active' = FALSE
  /\ ret' = None
  /\ call' = <<"_reset_daily_counters">>
  /\ UNCHANGED <<positions, applied, today>>
  /\ UNCHANGED <<connVars, execVars, mainVars>>

_reset_daily_counters ==
  /\ daily_pnl' = 0
  /\ current_date' = today
  /\ circuit_breaker_active' = FALSE
  /\ ret' = None
  /\ call' = <<"_reset_daily_counters">>
  /\ UNCHANGED <<positions, applied, today>>
  /\ UNCHANGED <<connVars, execVars, mainVars>>

(* The wall clock passes midnight. *)
AdvanceDay ==
  /\ today < MaxDay
  /\ today' = today + 1
  /\ call' = <<"date.today">>
  /\ ret' = None
  /\ UNCHANGED riskVars
  /\ UNCHANGED <<connVars, execVars, mainVars>>

InitRisk ==
  /\ daily_pnl = 0
  /\ positions = << >>
  /\ applied = << >>
  /\ today = 0
  /\ current_date = 0
  /\ circuit_breaker_active = FALSE
  /\ call = <<"__init__">>
  /\ ret = None

(***************************************************************************)
(* DataIngestion (data_ingestion.py).  Coroutine 0 is the connect() that   *)
(* main awaits; coroutines 1..MaxTasks are the tasks running _reconnect(). *)
(* A step runs a coroutine from one await to the next.                     *)
(***************************************************************************)
Procs == 0..MaxTasks
Tasks == 1..MaxTasks

Outstanding(p) == pc[p] \notin {"idle", "done"}

Delay_double(n) == RECONNECT_DELAY * (2 ^ n)

Delay(n) == RECONNECT_DELAY * (2 ^ (n - 1))

Keys(subs) == [i \in 1..Len(subs) |-> subs[i][1]]

Put(subs, symbol, ticker) ==
  IF \E i \in 1..Len(subs) : subs[i][1] = symbol
  THEN [i \in 1..Len(subs) |-> IF subs[i][1] = symbol THEN <<symbol, ticker>> ELSE subs[i]]
  ELSE Append(subs, <<symbol, ticker>>)

InitConn ==
  /\ _is_running = TRUE
  /\ ib_connected = FALSE
  /\ handlers = 0
  /\ _reconnect_task = 0
  /\ created = 0
  /\ pc = [p \in Procs |-> "idle"]
  /\ attempt = [p \in Procs |-> 0]
  /\ result = [p \in Procs |-> None]
  /\ tries = [p \in Procs |-> 0]
  /\ slept = [p \in Procs |-> << >>]
  /\ subscriptions = << >>
  /\ session = 0
  /\ mktData = << >>
  /\ lastNotify = "none"

(* The head of connect()'s while loop, reached on entry and after each     *)
(* backoff sleep: start a connection attempt, or fall out and return False.*)
LoopHead(p) ==
  IF attempt[p] < MAX_RECONNECT_ATTEMPTS /\ _is_running
  THEN /\ pc' = [pc EXCEPT ![p] = "connecting"]
       /\ tries' = [tries EXCEPT ![p] = @ + 1]
       /\ result' = result
  ELSE /\ pc' = [pc EXCEPT ![p] = "done"]
       /\ tries' = tries
       /\ result' = [result EXCEPT ![p] = <<FALSE>>]

(* main awaits data_ingestion.connect() *)
connect ==
  /\ pc[0] = "idle"
  /\ LoopHead(0)
  /\ UNCHANGED <<_is_running, ib_connected, handlers, _reconnect_task, created, attempt,
                 slept, subscriptions, session, mktData, lastNotify>>
  /\ UNCHANGED <<riskVars, clockVars, callVars, execVars, mainVars>>

(* _reconnect: the initial sleep(RECONNECT_DELAY) is over, connect() starts *)
ReconnectDelayDone(p) ==
  /\ pc[p] = "delay"
  /\ LoopHead(p)
  /\ UNCHANGED <<_is_running, ib_connected, handlers, _reconnect_task, created, attempt,
                 slept, subscriptions, session, mktData, lastNotify>>
  /\ UNCHANGED <<riskVars, clockVars, callVars, execVars, mainVars>>

(* connectAsync returned: connect() registers the handler and returns True; *)
(* in a reconnect task _reconnect then re-subscribes the tracked symbols,   *)
(* the first k of them before a gateway call raises (k = all: none raised). *)
ConnectSucceeds(p) ==
  /\ pc[p] = "connecting"
  /\ ib_connected' = TRUE
  /\ session' = session + 1
  /\ handlers' = handlers + 1
  /\ result' = [result EXCEPT ![p] = <<TRUE>>]
  /\ pc' = [pc EXCEPT ![p] = "done"]
  /\ IF p = 0
     THEN /\ subscriptions' = subscriptions
          /\ mktData' = << >>
     ELSE \E k \in 0..Len(subscriptions) :
            /\ subscriptions' =
                 [i \in 1..k |-> <<Keys(subscriptions)[i], <<session + 1, i>>>>]
            /\ mktData' = [i \in 1..k |-> Keys(subscriptions)[i]]
  /\ UNCHANGED <<_is_running, _reconnect_task, created, attempt, tries, slept, lastNotify>>
  /\ UNCHANGED <<riskVars, clockVars, callVars, execVars, mainVars>>

ConnectFails_retry(p) ==
  /\ pc[p] = "connecting"
  /\ attempt' = [attempt EXCEPT ![p] = @ + 1]
  /\ IF attempt[p] + 1 < MAX_RECONNECT_ATTEMPTS
     THEN /\ slept' = [slept EXCEPT ![p] = Append(@, Delay(attempt[p] + 1))]
          /\ pc' = [pc EXCEPT ![p] = "backoff"]
          /\ result' = result
          /\ UNCHANGED <<_reconnect_task, created>>
     ELSE /\ slept' = slept
          /\ result' = [result EXCEPT ![p] = <<FALSE>>]
          /\ IF p \in Tasks /\ created < MaxTasks
             THEN /\ created' = created + 1
                  /\ _reconnect_task' = created + 1
                  /\ pc' = [pc EXCEPT ![p] = "done", ![created + 1] = "delay"]
             ELSE /\ pc' = [pc EXCEPT ![p] = "done"]
                  /\ UNCHANGED <<_reconnect_task, created>>
  /\ UNCHANGED <<_is_running, ib_connected, handlers, tries,
                 subscriptions, session, mktData, lastNotify>>
  /\ UNCHANGED <<riskVars, clockVars, callVars, execVars, mainVars>>

ConnectFails_norecount(p) ==
  /\ pc[p] = "connecting"
  /\ attempt' = attempt
  /\ IF attempt[p] + 1 < MAX_RECONNECT_ATTEMPTS
     THEN /\ slept' = [slept EXCEPT ![p] = Append(@, Delay(attempt[p] + 1))]
          /\ pc' = [pc EXCEPT ![p] = "backoff"]
          /\ result' = result
     ELSE /\ slept' = slept
          /\ pc' = [pc EXCEPT ![p] = "done"]
          /\ result' = [result EXCEPT ![p] = <<FALSE>>]
  /\ UNCHANGED <<_is_running, ib_connected, handlers, _reconnect_task, created, tries,
                 subscriptions, session, mktData, lastNotify>>
  /\ UNCHANGED <<riskVars, clockVars, callVars, execVars, mainVars>>

(* connectAsync raised *)
ConnectFails(p) ==
  /\ pc[p] = "connecting"
  /\ attempt' = [attempt EXCEPT ![p] = @ + 1]
  /\ IF attempt[p] + 1 < MAX_RECONNECT_ATTEMPTS
     THEN /\ slept' = [slept EXCEPT ![p] = Append(@, Delay(attempt[p] + 1))]
          /\ pc' = [pc EXCEPT ![p] = "backoff"]
          /\ result' = result
     ELSE /\ slept' = slept
          /\ pc' = [pc EXCEPT ![p] = "done"]
          /\ result' = [result EXCEPT ![p] = <<FALSE>>]
  /\ UNCHANGED <<_is_running, ib_connected, handlers, _reconnect_task, created, tries,
                 subscriptions, session, mktData, lastNotify>>
  /\ UNCHANGED <<riskVars, clockVars, callVars, execVars, mainVars>>

(* the backoff sleep is over *)
BackoffDone(p) ==
  /\ pc[p] = "backoff"
  /\ LoopHead(p)
  /\ UNCHANGED <<_is_running, ib_connected, handlers, _reconnect_task, created, attempt,
                 slept, subscriptions, session, mktData, lastNotify>>
  /\ UNCHANGED <<riskVars, clockVars, callVars, execVars, mainVars>>

(* Position of task t; a task whose id is past MaxTasks was just created,  *)
(* and the step that created it is not taken.                              *)
TaskPc(st, t) == IF t \in Tasks THEN st.pc[t] ELSE "delay"

(* One invocation of _on_disconnect, on the record st of the fields it     *)
(* reads and writes.                                                       *)
_on_disconnect_unguarded(st) ==
  IF ~st._is_running THEN [st EXCEPT !.lastNotify = "ignored"]
  ELSE [_is_running |-> st._is_running,
        _reconnect_task |-> st.created + 1,
        created |-> st.created + 1,
        pc |-> IF st.created + 1 \in Tasks
               THEN [st.pc EXCEPT ![st.created + 1] = "delay"] ELSE st.pc,
        lastNotify |-> "created"]

_on_disconnect(st) ==
  IF ~st._is_running THEN [st EXCEPT !.lastNotify = "ignored"]
  ELSE IF st._reconnect_task = 0 \/ TaskPc(st, st._reconnect_task) = "done"
  THEN [_is_running |-> st._is_running,
        _reconnect_task |-> st.created + 1,
        created |-> st.created + 1,
        pc |-> IF st.created + 1 \in Tasks
               THEN [st.pc EXCEPT ![st.created + 1] = "delay"] ELSE st.pc,
        lastNotify |-> "created"]
  ELSE [st EXCEPT !.lastNotify = "dropped"]

(* disconnectedEvent.emit(): every registered handler runs, one after the  *)
(* other, with no await in between.                                        *)
RECURSIVE Emit(_, _)
Emit(n, st) == IF n = 0 THEN st ELSE Emit(n - 1, _on_disconnect(st))

(* ib emits disconnectedEvent when a session ends: the live session drops, *)
(* or a connection attempt in progress is torn down.                       *)
disconnectedEvent ==
  /\ handlers > 0
  /\ ib_connected \/ \E p \in Procs : pc[p] = "connecting"
  /\ LET st == Emit(handlers, [_is_running |-> _is_running,
                               _reconnect_task |-> _reconnect_task, created |-> created,
                               pc |-> pc, lastNotify |-> lastNotify])
     IN /\ st.created <= MaxTasks
        /\ _reconnect_task' = st._reconnect_task
        /\ created' = st.created
        /\ pc' = st.pc
        /\ lastNotify' = st.lastNotify
  /\ ib_connected' = FALSE
  /\ mktData' = << >>
  /\ UNCHANGED <<_is_running, handlers, attempt, result, tries, slept, subscriptions, session>>
  /\ UNCHANGED <<riskVars, clockVars, callVars, execVars, mainVars>>

(* DataIngestion.disconnect(), with the fields it and the handlers touch   *)
(* as a record: the flag is cleared, then ib.disconnect() closes an open   *)
(* session and emits disconnectedEvent.                                    *)
Disconnect_closefirst ==
  LET st == Emit(IF ib_connected THEN handlers ELSE 0,
                 [_is_running |-> _is_running, _reconnect_task |-> _reconnect_task,
                  created |-> created, pc |-> pc, lastNotify |-> lastNotify])
  IN [st EXCEPT !._is_running = FALSE]

Disconnect ==
  Emit(IF ib_connected THEN handlers ELSE 0,
       [_is_running |-> FALSE, _reconnect_task |-> _reconnect_task,
        created |-> created, pc |-> pc, lastNotify |-> lastNotify])

disconnect_core ==
  /\ Disconnect.created <= MaxTasks
  /\ _is_running' = Disconnect._is_running
  /\ _reconnect_task' = Disconnect._reconnect_task
  /\ created' = Disconnect.created
  /\ pc' = Disconnect.pc
  /\ lastNotify' = Disconnect.lastNotify
  /\ ib_connected' = FALSE
  /\ mktData' = << >>
  /\ UNCHANGED <<handlers, attempt, result, tries, slept, session>>

disconnect_clearing ==
  /\ disconnect_core
  /\ subscriptions' = << >>
  /\ UNCHANGED <<riskVars, clockVars, callVars, execVars, mainVars>>

disconnect ==
  /\ disconnect_core
  /\ UNCHANGED subscriptions
  /\ UNCHANGED <<riskVars, clockVars, callVars, execVars, mainVars>>

(* DataIngestion.subscribe_ticker(symbol) on a live session: reqMktData    *)
(* returns a new ticker, named by the session and the request's number.    *)
subscribe_ticker(symbol) ==
  /\ ib_connected
  /\ Len(mktData) < MaxRequests
  /\ mktData' = Append(mktData, symbol)
  /\ subscriptions' = Put(subscriptions, symbol, <<session, Len(mktData) + 1>>)
  /\ UNCHANGED <<_is_running, ib_connected, handlers, _reconnect_task, created, pc, attempt,
                 result, tries, slept, session, lastNotify>>
  /\ UNCHANGED <<riskVars, clockVars, callVars, execVars, mainVars>>

(***************************************************************************)
(* ExecutionEngine (execution_engine.py).                                  *)
(***************************************************************************)
InitExec ==
  /\ orders = << >>
  /\ placed = << >>
  /\ nextOrderId = 1
  /\ authorized = {}
  /\ fills = << >>
  /\ cancelReqs = {}

(* str(trade.order.orderId) *)
str(n) == ToString(n)

(* signal.get(key): None when the dictionary has no such key *)
Get(signal, key) == IF key \in DOMAIN signal THEN signal[key] ELSE None

(* MarketOrder(action, quantity) / LimitOrder(action, quantity, lmtPrice):  *)
(* plain constructors, the price is stored as given.                        *)
MarketOrder(action, quantity) ==
  [orderType |-> "MKT", action |-> action, totalQuantity |-> quantity, lmtPrice |-> None]

LimitOrder(action, quantity, lmtPrice) ==
  [orderType |-> "LMT", action |-> action, totalQuantity |-> quantity, lmtPrice |-> lmtPrice]

(* the order execute_order builds for a MARKET or LIMIT signal *)
OrderFor(signal) ==
  IF signal.type = "MARKET"
  THEN MarketOrder(signal.action, signal.quantity)
  ELSE LimitOrder(signal.action, signal.quantity, Get(signal, "limit_price"))

(* ib.placeOrder(contract, order): the Trade the gateway session tracks,    *)
(* created with order status PendingSubmit and nothing filled.              *)
Trade(orderId, signal) ==
  [orderId |-> orderId, signal |-> signal, order |-> OrderFor(signal),
   status |-> "PendingSubmit", filled |-> 0, avgFillPrice |-> 0]

(* the Trade object with the given order id *)
TradeOf(trades, orderId) ==
  trades[CHOOSE i \in 1..Len(trades) : trades[i].orderId = orderId]

(* the ledger with entry order_id set *)
SetOrder(ledger, order_id, entry) ==
  [k \in (DOMAIN ledger) \cup {order_id} |-> IF k = order_id THEN entry ELSE ledger[k]]

(* ExecutionEngine.execute_order(signal); raises: a gateway call           *)
(* (qualifyContracts or placeOrder) raises.                                *)
execute_order_recordfirst(signal, raises) ==
  /\ Len(placed) < MaxOrders
  /\ call' = <<"execute_order", signal>>
  /\ IF signal.type \notin {"MARKET", "LIMIT"}
     THEN /\ ret' = <<None>>
          /\ UNCHANGED <<orders, placed, nextOrderId>>
     ELSE LET order_id == str(nextOrderId)
          IN /\ orders' = SetOrder(orders, order_id,
                                   [trade |-> nextOrderId, signal |-> signal,
                                    status |-> "SUBMITTED"])
             /\ IF raises
                THEN /\ ret' = <<None>>
                     /\ UNCHANGED <<placed, nextOrderId>>
                ELSE /\ placed' = Append(placed, Trade(nextOrderId, signal))
                     /\ nextOrderId' = nextOrderId + 1
                     /\ ret' = <<Some(order_id)>>
  /\ UNCHANGED <<authorized, fills, cancelReqs>>
  /\ UNCHANGED <<riskVars, clockVars, connVars, mainVars>>

execute_order(signal, raises) ==
  /\ Len(placed) < MaxOrders
  /\ call' = <<"execute_order", signal>>
  /\ IF raises \/ signal.type \notin {"MARKET", "LIMIT"}
     THEN /\ ret' = <<None>>
          /\ UNCHANGED <<orders, placed, nextOrderId>>
     ELSE LET order_id == str(nextOrderId)
          IN /\ placed' = Append(placed, Trade(nextOrderId, signal))
             /\ nextOrderId' = nextOrderId + 1
             /\ orders' = SetOrder(orders, order_id,
                                   [trade |-> nextOrderId, signal |-> signal,
                                    status |-> "SUBMITTED"])
             /\ ret' = <<Some(order_id)>>
  /\ UNCHANGED <<authorized, fills, cancelReqs>>
  /\ UNCHANGED <<riskVars, clockVars, connVars, mainVars>>

(* ib.cancelOrder(order) on the tracked Trade: an order that is not done    *)
(* yet goes to PendingCancel.                                               *)
CancelRequested_confirmed(trades, orderId) ==
  [i \in 1..Len(trades) |->
     IF trades[i].orderId = orderId /\ trades[i].status \in {"PendingSubmit", "Submitted"}
     THEN [trades[i] EXCEPT !.status = "Cancelled"]
     ELSE trades[i]]

CancelRequested(trades, orderId) ==
  [i \in 1..Len(trades) |->
     IF trades[i].orderId = orderId /\ trades[i].status \in {"PendingSubmit", "Submitted"}
     THEN [trades[i] EXCEPT !.status = "PendingCancel"]
     ELSE trades[i]]

(* ExecutionEngine.cancel_order(order_id); raises: ib.cancelOrder raises *)
cancel_order_lenient(order_id, raises) ==
  /\ call' = <<"cancel_order", order_id>>
  /\ IF order_id \notin DOMAIN orders
     THEN /\ ret' = <<TRUE>>
          /\ UNCHANGED <<orders, placed, cancelReqs>>
     ELSE IF raises
     THEN /\ ret' = <<FALSE>>
          /\ UNCHANGED <<orders, placed, cancelReqs>>
     ELSE /\ cancelReqs' = cancelReqs \cup {orders[order_id].trade}
          /\ placed' = CancelRequested(placed, orders[order_id].trade)
          /\ orders' = [orders EXCEPT ![order_id].status = "CANCELLED"]
          /\ ret' = <<TRUE>>
  /\ UNCHANGED <<nextOrderId, authorized, fills>>
  /\ UNCHANGED <<riskVars, clockVars, connVars, mainVars>>

cancel_order(order_id, raises) ==
  /\ call' = <<"cancel_order", order_id>>
  /\ IF order_id \notin DOMAIN orders \/ raises
     THEN /\ ret' = <<FALSE>>
          /\ UNCHANGED <<orders, placed, cancelReqs>>
     ELSE /\ cancelReqs' = cancelReqs \cup {orders[order_id].trade}
          /\ placed' = CancelRequested(placed, orders[order_id].trade)
          /\ orders' = [orders EXCEPT ![order_id].status = "CANCELLED"]
          /\ ret' = <<TRUE>>
  /\ UNCHANGED <<nextOrderId, authorized, fills>>
  /\ UNCHANGED <<riskVars, clockVars, connVars, mainVars>>

(* what get_order_status(order_id) returns: None for an id not in the       *)
(* ledger, else the Trade's own order status as the gateway last reported it*)
OrderStatus(ledger, trades, order_id) ==
  IF order_id \notin DOMAIN ledger
  THEN None
  ELSE LET trade == TradeOf(trades, ledger[order_id].trade)
       IN Some([order_id |-> order_id,
                status |-> trade.status,
                filled |-> trade.filled,
                remaining |-> trade.order.totalQuantity - trade.filled,
                avg_fill_price |-> trade.avgFillPrice])

(* ExecutionEngine.get_order_status(order_id) *)
get_order_status(order_id) ==
  /\ call' = <<"get_order_status", order_id>>
  /\ ret' = <<OrderStatus(orders, placed, order_id)>>
  /\ UNCHANGED execVars
  /\ UNCHANGED <<riskVars, clockVars, connVars, mainVars>>

(* ExecutionEngine.on_fill(trade), the fill callback, for the i-th Trade   *)
(* of the session once the gateway has filled it.                          *)
on_fill_marking(i) ==
  /\ i \in 1..Len(placed)
  /\ placed[i].status = "Filled"
  /\ Len(fills) < MaxFills
  /\ call' = <<"on_fill", placed[i].orderId>>
  /\ ret' = None
  /\ fills' = Append(fills, [order_id |-> placed[i].orderId,
                             symbol |-> placed[i].signal.symbol,
                             action |-> placed[i].order.action,
                             quantity |-> placed[i].filled,
                             price |-> placed[i].avgFillPrice])
  /\ orders' = [orders EXCEPT ![str(placed[i].orderId)].status = "FILLED"]
  /\ UNCHANGED <<placed, nextOrderId, authorized, cancelReqs>>
  /\ UNCHANGED <<riskVars, clockVars, connVars, mainVars>>

on_fill(i) ==
  /\ i \in 1..Len(placed)
  /\ placed[i].status = "Filled"
  /\ Len(fills) < MaxFills
  /\ call' = <<"on_fill", placed[i].orderId>>
  /\ ret' = None
  /\ fills' = Append(fills, [order_id |-> placed[i].orderId,
                             symbol |-> placed[i].signal.symbol,
                             action |-> placed[i].order.action,
                             quantity |-> placed[i].filled,
                             price |-> placed[i].avgFillPrice])
  /\ UNCHANGED <<orders, placed, nextOrderId, authorized, cancelReqs>>
  /\ UNCHANGED <<riskVars, clockVars, connVars, mainVars>>

(* ib.positions() as the gateway reports it for the session's trades: the  *)
(* quantity filled, per symbol.                                            *)
RECURSIVE FilledQty(_, _, _)
FilledQty(trades, symbol, n) ==
  IF n = 0 THEN 0
  ELSE (IF trades[n].signal.symbol = symbol THEN trades[n].filled ELSE 0)
         + FilledQty(trades, symbol, n - 1)

(* ExecutionEngine.reconcile_positions(); raises: ib.positions() raises,   *)
(* which the method does not catch.                                        *)
reconcile_positions(raises) ==
  /\ call' = <<"reconcile_positions">>
  /\ ret' = IF raises
            THEN <<"raise">>
            ELSE <<[symbol \in {placed[i].signal.symbol :
                                  i \in {j \in 1..Len(placed) : placed[j].filled # 0}} |->
                      FilledQty(placed, symbol, Len(placed))]>>
  /\ UNCHANGED execVars
  /\ UNCHANGED <<riskVars, clockVars, connVars, mainVars>>

(* The gateway reports a new order status for the i-th Trade: accepted,    *)
(* filled at a price, or cancelled; ib_insync updates trade.orderStatus.   *)
orderStatusEvent(i, status, price) ==
  /\ i \in 1..Len(placed)
  /\ \/ placed[i].status = "PendingSubmit" /\ status = "Submitted"
     \/ placed[i].status \in {"PendingSubmit", "Submitted", "PendingCancel"}
          /\ status \in {"Filled", "Cancelled"}
  /\ placed' = [placed EXCEPT ![i] =
                  IF status = "Filled"
                  THEN [placed[i] EXCEPT !.status = status,
                                         !.filled = placed[i].order.totalQuantity,
                                         !.avgFillPrice = price]
                  ELSE [placed[i] EXCEPT !.status = status]]
  /\ call' = <<"orderStatusEvent", placed[i].orderId, status>>
  /\ ret' = None
  /\ UNCHANGED <<orders, nextOrderId, authorized, fills, cancelReqs>>
  /\ UNCHANGED <<riskVars, clockVars, connVars, mainVars>>

(***************************************************************************)
(* main (main.py) and the Monitor's scheduler (monitoring.py).             *)
(***************************************************************************)
InitMain ==
  /\ pcMain = "start"
  /\ marker = FALSE
  /\ alerts = << >>
  /\ monitorThread = "none"
  /\ monitor_is_running = FALSE
  /\ exitCode = None
  /\ lastCheck = "none"

KillSwitchMsg == "Emergency kill switch activated"
FatalMsg == "Fatal error"
ExitCodes == {0, 130}

(* check_kill_switch() *)
check_kill_switch == marker

(* asyncio.run(main()) cancels the coroutines still pending when main ends *)
CancelPending(pcs) ==
  [p \in Procs |-> IF pcs[p] \in {"idle", "done"} THEN pcs[p] ELSE "cancelled"]

(* main's finally block and the return of asyncio.run: disconnect(),       *)
(* monitor.stop(), removal of the marker file, process exit with code.     *)
Cleanup_keepmarker(code) ==
  /\ _is_running' = Disconnect._is_running
  /\ _reconnect_task' = Disconnect._reconnect_task
  /\ created' = Disconnect.created
  /\ lastNotify' = Disconnect.lastNotify
  /\ ib_connected' = FALSE
  /\ mktData' = << >>
  /\ pc' = CancelPending(Disconnect.pc)
  /\ monitor_is_running' = FALSE
  /\ marker' = marker
  /\ pcMain' = "done"
  /\ exitCode' = Some(code)
  /\ UNCHANGED <<handlers, attempt, result, tries, slept, session, subscriptions>>
  /\ UNCHANGED <<riskVars, clockVars, callVars, execVars>>

Cleanup(code) ==
  /\ _is_running' = Disconnect._is_running
  /\ _reconnect_task' = Disconnect._reconnect_task
  /\ created' = Disconnect.created
  /\ lastNotify' = Disconnect.lastNotify
  /\ ib_connected' = FALSE
  /\ mktData' = << >>
  /\ pc' = CancelPending(Disconnect.pc)
  /\ monitor_is_running' = FALSE
  /\ marker' = FALSE
  /\ pcMain' = "done"
  /\ exitCode' = Some(code)
  /\ UNCHANGED <<handlers, attempt, result, tries, slept, session, subscriptions>>
  /\ UNCHANGED <<riskVars, clockVars, callVars, execVars>>

(* one pass of the body of main's while True: the kill-switch check, then  *)
(* either the alert, break and cleanup, or the next asyncio.sleep(1).      *)
LoopBody ==
  IF check_kill_switch
  THEN /\ lastCheck' = "present"
       /\ alerts' = Append(alerts, KillSwitchMsg)
       /\ Cleanup(0)
  ELSE /\ lastCheck' = "absent"
       /\ pcMain' = "loop"
       /\ UNCHANGED <<marker, alerts, monitor_is_running, exitCode>>
       /\ UNCHANGED <<riskVars, clockVars, callVars, connVars, execVars>>

(* main after `await data_ingestion.connect()` has returned, whatever it   *)
(* returned: monitor.start(), then the first pass of the loop; raises:     *)
(* monitor.start() raises and the `except Exception` branch runs.          *)
MainStart(raises) ==
  /\ pcMain = "start"
  /\ pc[0] = "done"
  /\ IF raises
     THEN /\ alerts' = Append(alerts, FatalMsg)
          /\ Cleanup(0)
          /\ UNCHANGED <<monitorThread, lastCheck>>
     ELSE /\ monitorThread' = "started"
          /\ LoopBody

(* asyncio.sleep(1) is over: the next pass of the loop *)
MainIterate ==
  /\ pcMain = "loop"
  /\ LoopBody
  /\ UNCHANGED monitorThread

(* Ctrl+C while main is suspended in an await: the finally block runs *)
MainInterrupt(code) ==
  /\ \/ pcMain = "loop"
     \/ pcMain = "start" /\ pc[0] \in {"connecting", "backoff"}
  /\ Cleanup(code)
  /\ UNCHANGED <<alerts, monitorThread, lastCheck>>

(* the operator creates the marker file: `touch STOP` *)
TouchStop ==
  /\ pcMain # "done"
  /\ ~marker
  /\ marker' = TRUE
  /\ UNCHANGED <<pcMain, alerts, monitorThread, monitor_is_running, exitCode, lastCheck>>
  /\ UNCHANGED <<riskVars, clockVars, callVars, connVars, execVars>>

(* Monitor.start's thread begins run_scheduler: self.is_running = True *)
run_scheduler ==
  /\ pcMain # "done"
  /\ monitorThread = "started"
  /\ monitorThread' = "running"
  /\ monitor_is_running' = TRUE
  /\ UNCHANGED <<pcMain, marker, alerts, exitCode, lastCheck>>
  /\ UNCHANGED <<riskVars, clockVars, callVars, connVars, execVars>>

Init == InitRisk /\ InitConn /\ InitExec /\ InitMain

NextRisk ==
  \/ \E signal \in Signals : validate_order(signal)
  \/ \E pnl \in PnlDeltas : update_pnl(pnl)
  \/ \E symbol \in Symbols, quantity \in QtyDeltas, price \in Prices :
        update_position(symbol, quantity, price)
  \/ _reset_daily_counters
  \/ AdvanceDay

SpecRisk == Init /\ [][NextRisk]_vars

NextConn ==
  \/ connect
  \/ \E p \in Tasks : ReconnectDelayDone(p)
  \/ \E p \in Procs : ConnectSucceeds(p)
  \/ \E p \in Procs : ConnectFails(p)
  \/ \E p \in Procs : BackoffDone(p)
  \/ disconnectedEvent
  \/ disconnect
  \/ \E symbol \in Symbols : subscribe_ticker(symbol)

SpecConn == Init /\ [][NextConn]_vars

(* The event loop runs every coroutine that is ready: a sleep elapses and  *)
(* a gateway connection attempt completes or raises.                       *)
FairSpecConn ==
  /\ SpecConn
  /\ \A p \in Procs :
        WF_vars(ReconnectDelayDone(p) \/ ConnectSucceeds(p) \/ ConnectFails(p)
                  \/ BackoffDone(p))
(* Intents pass through validate_order and execute_order in any order the  *)
(* caller chooses; P&L updates arrive in between.                          *)
NextTrade ==
  \/ \E signal \in TradeSignals : validate_order_logged(signal)
  \/ \E pnl \in PnlDeltas : update_pnl(pnl)
  \/ \E signal \in TradeSignals, raises \in BOOLEAN : execute_order(signal, raises)

SpecTrade == Init /\ [][NextTrade]_vars

NextExec ==
  \/ \E signal \in ExecSignals, raises \in BOOLEAN : execute_order(signal, raises)
  \/ \E order_id \in OrderIds, raises \in BOOLEAN : cancel_order(order_id, raises)
  \/ \E order_id \in OrderIds : get_order_status(order_id)
  \/ \E i \in 1..MaxOrders : on_fill(i)
  \/ \E raises \in BOOLEAN : reconcile_positions(raises)
  \/ \E i \in 1..MaxOrders, status \in {"Submitted", "Filled", "Cancelled"},
         price \in FillPrices : orderStatusEvent(i, status, price)

SpecExec == Init /\ [][NextExec]_vars

NextMain ==
  \/ connect
  \/ \E p \in Tasks : ReconnectDelayDone(p)
  \/ \E p \in Procs : ConnectSucceeds(p)
  \/ \E p \in Procs : ConnectFails(p)
  \/ \E p \in Procs : BackoffDone(p)
  \/ disconnectedEvent
  \/ \E raises \in BOOLEAN : MainStart(raises)
  \/ MainIterate
  \/ \E code \in ExitCodes : MainInterrupt(code)
  \/ TouchStop
  \/ run_scheduler

SpecMain == Init /\ [][NextMain]_vars

(***************************************************************************)
(* Properties of the RiskManager, checked under SpecRisk.                  *)
(***************************************************************************)

(* C1: while the circuit breaker is active, every validate_order call      *)
(* returns (False, "Circuit breaker active"), whatever the intent.         *)
C1_BreakerRejectsAll ==
  [][(circuit_breaker_active /\ call'[1] = "validate_order")
       => ret' = <<FALSE, <<"Circuit breaker active">>>>]_vars

C1_Witness ==
  /\ circuit_breaker_active
  /\ call[1] = "validate_order"
  /\ ret = <<FALSE, <<"Circuit breaker active">>>>

(* C2: the breaker is one-way: validate_order, update_pnl (also a positive *)
(* update lifting daily_pnl above the limit) and update_position keep an   *)
(* active breaker active; only _reset_daily_counters clears it.            *)
C2_BreakerOneWay ==
  [][circuit_breaker_active =>
       /\ (call'[1] \in {"validate_order", "update_pnl", "update_position"}
             => circuit_breaker_active')
       /\ (~circuit_breaker_active' => call'[1] = "_reset_daily_counters")]_vars

C2_Witness ==
  /\ circuit_breaker_active
  /\ call[1] = "update_pnl"
  /\ call[2] > 0
  /\ daily_pnl > -DAILY_LOSS_LIMIT

(* C3: once the date has advanced past the tracked day, the next           *)
(* validate_order call resets daily_pnl to 0 and clears the breaker before *)
(* the remaining checks, so an intent within all limits is authorized.     *)
C3_RolloverResets ==
  [][(call'[1] = "validate_order" /\ today # current_date) =>
       /\ daily_pnl' = 0
       /\ ~circuit_breaker_active'
       /\ ((call'[2].quantity * 100 <= MAX_POSITION_SIZE
              /\ total_exposure(positions) <= MAX_LEVERAGE * 100000)
             => ret' = <<TRUE, None>>)]_vars

(* C4: an order reaches the gateway (execute_order reaching placeOrder)     *)
(* only for an intent that validate_order has authorized beforehand, and   *)
(* never while the circuit breaker is active.                              *)
C4_RiskGated ==
  /\ [](\A i \in 1..Len(placed) : placed[i].signal \in authorized)
  /\ [][Len(placed') > Len(placed) => ~circuit_breaker_active]_vars

(* C5: update_pnl(delta) adds delta to daily_pnl, and the breaker is       *)
(* active right after the call whenever the new daily_pnl is at or below   *)
(* -DAILY_LOSS_LIMIT.                                                      *)
C5_UpdatePnlTrips ==
  [][call'[1] = "update_pnl" =>
       /\ daily_pnl' = daily_pnl + call'[2]
       /\ (daily_pnl' <= -DAILY_LOSS_LIMIT => circuit_breaker_active')]_vars

C5_Witness ==
  /\ call = <<"update_pnl", -600>>
  /\ daily_pnl = -600
  /\ circuit_breaker_active

(* C6: an intent with quantity * 100 <= MAX_POSITION_SIZE, submitted with  *)
(* the breaker inactive and tracked exposure <= MAX_LEVERAGE * 100000, is  *)
(* authorized: validate_order returns (True, None), boundaries included.   *)
C6_WithinLimitsAuthorized ==
  [][(/\ call'[1] = "validate_order"
      /\ ~circuit_breaker_active
      /\ call'[2].quantity * 100 <= MAX_POSITION_SIZE
      /\ total_exposure(positions) <= MAX_LEVERAGE * 100000)
       => ret' = <<TRUE, None>>]_vars

C6_Witness ==
  /\ call[1] = "validate_order"
  /\ ret = <<TRUE, None>>
  /\ call[2].quantity * 100 = MAX_POSITION_SIZE
  /\ total_exposure(positions) = MAX_LEVERAGE * 100000

(* C7 as stated: an intent with quantity * 100 > MAX_POSITION_SIZE,        *)
(* submitted with the breaker inactive and the loss limit not breached, is *)
(* rejected with a "Position size" reason, and the call leaves daily_pnl,  *)
(* positions and the breaker flag unchanged.                               *)
C7_Original ==
  [][(/\ call'[1] = "validate_order"
      /\ ~circuit_breaker_active
      /\ daily_pnl > -DAILY_LOSS_LIMIT
      /\ call'[2].quantity * 100 > MAX_POSITION_SIZE)
       => /\ ret'[1] = FALSE
          /\ ret'[2][1] = "Position size"
          /\ daily_pnl' = daily_pnl
          /\ positions' = positions
          /\ circuit_breaker_active' = circuit_breaker_active]_vars

(* C7 amended: the same rejection leaves positions and the breaker flag    *)
(* unchanged, and leaves daily_pnl unchanged unless the date has advanced  *)
(* past the tracked day, in which case the call resets daily_pnl to 0.     *)
C7_OversizeRejected ==
  [][(/\ call'[1] = "validate_order"
      /\ ~circuit_breaker_active
      /\ daily_pnl > -DAILY_LOSS_LIMIT
      /\ call'[2].quantity * 100 > MAX_POSITION_SIZE)
       => /\ ret'[1] = FALSE
          /\ ret'[2][1] = "Position size"
          /\ daily_pnl' = (IF today # current_date THEN 0 ELSE daily_pnl)
          /\ positions' = positions
          /\ circuit_breaker_active' = circuit_breaker_active]_vars

C7_Witness ==
  /\ call[1] = "validate_order"
  /\ call[2].quantity = 1000
  /\ ret = <<FALSE, <<"Position size", 100000, 10000>>>>
  /\ ~circuit_breaker_active
(***************************************************************************)
(* Properties of DataIngestion, checked under SpecConn / FairSpecConn.     *)
(***************************************************************************)

(* C8: connect() always terminates: it makes at most                       *)
(* MAX_RECONNECT_ATTEMPTS connection attempts, returns True as soon as one *)
(* succeeds (the disconnect handler registered), and returns False once    *)
(* MAX_RECONNECT_ATTEMPTS attempts have failed, without looping further.   *)
C8_ConnectTerminates ==
  /\ [](\A p \in Procs :
          /\ tries[p] <= MAX_RECONNECT_ATTEMPTS
          /\ tries[p] - attempt[p] \in {0, 1}
          /\ (result[p] = <<TRUE>> <=> (pc[p] = "done" /\ tries[p] = attempt[p] + 1))
          /\ (result[p] = <<FALSE>> =>
                pc[p] = "done" /\ (attempt[p] = MAX_RECONNECT_ATTEMPTS \/ ~_is_running))
          /\ (attempt[p] = MAX_RECONNECT_ATTEMPTS => result[p] = <<FALSE>>))
  /\ [](handlers = Cardinality({p \in Procs : result[p] = <<TRUE>>}))
  /\ \A p \in Procs : (pc[p] \in {"connecting", "backoff"}) ~> (pc[p] = "done")

C8_Witness ==
  \E p \in Procs :
    /\ pc[p] = "done"
    /\ result[p] = <<FALSE>>
    /\ tries[p] = MAX_RECONNECT_ATTEMPTS
    /\ _is_running

(* C9: backoff schedule of connect(): no delay before the first attempt,   *)
(* RECONNECT_DELAY * 2^(k-1) after the k-th failed attempt for             *)
(* k < MAX_RECONNECT_ATTEMPTS, none after the last; with 5 attempts and a  *)
(* base delay of 5 the delays are exactly 5, 10, 20, 40, increasing.       *)
C9_BackoffSchedule ==
  \A p \in Procs :
    /\ Len(slept[p]) = (IF attempt[p] < MAX_RECONNECT_ATTEMPTS
                        THEN attempt[p] ELSE MAX_RECONNECT_ATTEMPTS - 1)
    /\ \A k \in 1..Len(slept[p]) : slept[p][k] = RECONNECT_DELAY * (2 ^ (k - 1))
    /\ \A k \in 1..(Len(slept[p]) - 1) : slept[p][k] < slept[p][k + 1]
    /\ (attempt[p] = MAX_RECONNECT_ATTEMPTS => slept[p] = <<5, 10, 20, 40>>)

C9_Witness ==
  \E p \in Procs :
    /\ result[p] = <<FALSE>>
    /\ attempt[p] = MAX_RECONNECT_ATTEMPTS
    /\ slept[p] = <<5, 10, 20, 40>>

(* C10: at most one reconnect task is outstanding at any time: a           *)
(* disconnect notification delivered while a task exists and is not done   *)
(* starts no second task, however often the handler is registered.         *)
C10_SingleReconnect ==
  /\ [](/\ Cardinality({p \in Tasks : Outstanding(p)}) <= 1
        /\ \A p \in Tasks : Outstanding(p) => _reconnect_task = p)
  /\ [][(\E p \in Tasks : Outstanding(p)) => created' = created]_vars

C10_Witness ==
  /\ lastNotify = "dropped"
  /\ handlers >= 2
  /\ \E p \in Tasks : Outstanding(p)

(***************************************************************************)
(* C11: disconnect() marks the supervisor not-running before it closes the *)
(* session, and from then on disconnect notifications are ignored: no step *)
(* that ends with the supervisor not running (the disconnect() call itself *)
(* with the notification its session close emits, or any later             *)
(* notification) creates a reconnect task or replaces the tracked one, and *)
(* the supervisor never becomes running again.                             *)
(***************************************************************************)
C11_NoReconnectAfterDisconnect ==
  [][ /\ (~_is_running' => created' = created /\ _reconnect_task' = _reconnect_task)
      /\ (~_is_running => ~_is_running') ]_vars

C11_Witness ==
  ~_is_running /\ handlers > 0 /\ lastNotify = "ignored" /\ ~ib_connected

(* the symbols tracked by a subscriptions map, as a set *)
KeySet(subs) == {subs[i][1] : i \in 1..Len(subs)}

(***************************************************************************)
(* C12: when a reconnect task's connect() succeeds and _reconnect runs to  *)
(* its end, the key set of subscriptions is the key set tracked before the *)
(* disconnect and every handle in it was issued in the new session.        *)
(***************************************************************************)
C12_ResubscribesAll ==
  [][\A p \in Tasks :
       (pc[p] = "connecting" /\ pc'[p] = "done" /\ result'[p] = <<TRUE>>) =>
         /\ KeySet(subscriptions') = KeySet(subscriptions)
         /\ \A i \in 1..Len(subscriptions') : subscriptions'[i][2][1] = session']_vars

(***************************************************************************)
(* C13 as stated: in every reachable state the subscriptions map is        *)
(* non-empty only while the connection is Connected.                       *)
(***************************************************************************)
C13_Original ==
  Len(subscriptions) > 0 => ib_connected

(***************************************************************************)
(* C13: losing or closing the session leaves the subscriptions map exactly *)
(* as it was, so the map can be non-empty while not Connected; the retained*)
(* keys are what _reconnect re-subscribes.                                 *)
(***************************************************************************)
C13_DisconnectKeepsSubscriptions ==
  [][(ib_connected /\ ~ib_connected') => subscriptions' = subscriptions]_vars

C13_Witness ==
  ~ib_connected /\ Len(subscriptions) > 0 /\ ~_is_running

(***************************************************************************)
(* C14: subscribe_ticker(symbol) for a symbol already in the subscription  *)
(* map is a no-op: a step inside one session that issues a market-data     *)
(* request only does so for a symbol not yet tracked, and no symbol ever   *)
(* has two live requests.                                                  *)
(***************************************************************************)
C14_SubscribeIdempotent ==
  [][ /\ (session' = session /\ Len(mktData') > Len(mktData)) =>
           mktData'[Len(mktData')] \notin KeySet(subscriptions)
      /\ \A i, j \in 1..Len(mktData') : mktData'[i] = mktData'[j] => i = j ]_vars

(***************************************************************************)
(* Properties of the ExecutionEngine, checked under SpecExec.              *)
(***************************************************************************)

(* C15: whenever execute_order returns None (a gateway call raised during  *)
(* qualification or placement, or the order type is unknown) the orders    *)
(* map is exactly what it was before the call.                             *)
C15_FailedSubmissionNoEntry ==
  [][(call'[1] = "execute_order" /\ ret' = <<None>>) => orders' = orders]_vars

C15_Witness ==
  /\ call[1] = "execute_order"
  /\ call[2].type \in {"MARKET", "LIMIT"}
  /\ ret = <<None>>
  /\ DOMAIN orders # {}

(* C16: execute_order of a LIMIT intent that carries no limit price        *)
(* returns None, places no order with the gateway and records no ledger    *)
(* entry.                                                                  *)
C16_LimitNeedsPrice ==
  [][(/\ call'[1] = "execute_order"
      /\ call'[2].type = "LIMIT"
      /\ Get(call'[2], "limit_price") = None)
       => (ret' = <<None>> /\ placed' = placed /\ orders' = orders)]_vars

(* C17: right after execute_order has succeeded and returned order_id, the *)
(* ledger entry of order_id has status SUBMITTED and                       *)
(* get_order_status(order_id) reports the status Submitted.                *)
C17_SubmittedAfterSubmit ==
  [][(call'[1] = "execute_order" /\ ret' # <<None>>) =>
       /\ ret'[1][1] \in DOMAIN orders'
       /\ orders'[ret'[1][1]].status = "SUBMITTED"
       /\ OrderStatus(orders', placed', ret'[1][1])[1].status
             \in {"Submitted", "SUBMITTED"}]_vars

(* C18: for an order_id that is not in the ledger, cancel_order returns    *)
(* False and get_order_status returns None; the call reaches no gateway    *)
(* request and leaves the orders map and the fills list unchanged.         *)
C18_UnknownIdNonFatal ==
  [][(call'[1] \in {"cancel_order", "get_order_status"} /\ call'[2] \notin DOMAIN orders) =>
       /\ ret' = IF call'[1] = "cancel_order" THEN <<FALSE>> ELSE <<None>>
       /\ orders' = orders
       /\ fills' = fills
       /\ placed' = placed
       /\ cancelReqs' = cancelReqs]_vars

C18_Witness ==
  /\ call[1] = "cancel_order"
  /\ call[2] \notin DOMAIN orders
  /\ ret = <<FALSE>>
  /\ DOMAIN orders # {}

(***************************************************************************)
(* Properties of main, checked under SpecMain.                             *)
(***************************************************************************)

(* C19: once a pass of the main loop has found the marker file, the loop   *)
(* has stopped in that pass and the shutdown sequence has run: the alert   *)
(* was raised, the data feed is disconnected and no longer running, the    *)
(* monitor is stopped, main has ended, and the marker is absent, so        *)
(* check_kill_switch() is false for a subsequent run.                      *)
C19_KillSwitchRoundTrip ==
  lastCheck = "present" =>
    /\ pcMain = "done"
    /\ Len(alerts) > 0 /\ alerts[Len(alerts)] = KillSwitchMsg
    /\ ~_is_running
    /\ ~ib_connected
    /\ ~monitor_is_running
    /\ ~marker
    /\ ~check_kill_switch

C19_Witness ==
  lastCheck = "present" /\ pcMain = "done" /\ session > 0 /\ monitorThread = "running"

(* C20: when the initial connect() has used up its attempts and returned   *)
(* False, main does not enter the trading loop, and once it has ended it   *)
(* has raised an alert and exited with a non-zero status.                  *)
C20_ConnectFailureStops ==
  result[0] = <<FALSE>> =>
    /\ pcMain # "loop"
    /\ (pcMain = "done" => Len(alerts) > 0 /\ exitCode \notin {None, Some(0)})

(***************************************************************************)
(* C21: validate_order reports the first failing check in the order        *)
(* circuit breaker, day-rollover reset, daily loss limit, position size,   *)
(* leverage.  An active breaker is reported before anything else and       *)
(* without the rollover reset; otherwise the reset is applied first, then  *)
(* a reached loss limit is reported, then an oversized intent is rejected  *)
(* with the "Position size" reason even under excess exposure, and only an *)
(* intent within the size limit is rejected with "Leverage limit exceeded".*)
(***************************************************************************)
C21_CheckOrder ==
  [][call'[1] = "validate_order" =>
       LET q == call'[2].quantity
           pnl == IF today # current_date THEN 0 ELSE daily_pnl
           oversize == q * 100 > MAX_POSITION_SIZE
           levered == total_exposure(positions) > MAX_LEVERAGE * 100000
       IN IF circuit_breaker_active
          THEN /\ ret' = <<FALSE, <<"Circuit breaker active">>>>
               /\ current_date' = current_date
               /\ daily_pnl' = daily_pnl
          ELSE /\ current_date' = today
               /\ daily_pnl' = pnl
               /\ IF pnl <= -DAILY_LOSS_LIMIT
                  THEN ret' = <<FALSE, <<"Daily loss limit reached", pnl>>>>
                  ELSE IF oversize
                  THEN ret' = <<FALSE, <<"Position size", q * 100, MAX_POSITION_SIZE>>>>
                  ELSE IF levered
                  THEN ret' = <<FALSE, <<"Leverage limit exceeded">>>>
                  ELSE ret' = <<TRUE, None>>]_vars

C21_Witness ==
  /\ call[1] = "validate_order"
  /\ total_exposure(positions) > MAX_LEVERAGE * 100000
  /\ ret = <<FALSE, <<"Position size", call[2].quantity * 100, MAX_POSITION_SIZE>>>>

(***************************************************************************)
(* C22: cancel_order on an order_id of the ledger either sends the cancel  *)
(* request to the gateway, marks the entry CANCELLED and returns True at   *)
(* once, the gateway not having confirmed the cancellation in that step,   *)
(* or (the request raised) returns False with the ledger, the gateway's    *)
(* requests and its trades all unchanged.                                  *)
(***************************************************************************)
C22_CancelKnown ==
  [][(call'[1] = "cancel_order" /\ call'[2] \in DOMAIN orders) =>
       LET id == call'[2]
           n == orders[id].trade
       IN \/ /\ ret' = <<TRUE>>
             /\ n \in cancelReqs'
             /\ orders' = [orders EXCEPT ![id].status = "CANCELLED"]
             /\ (TradeOf(placed', n).status = "Cancelled"
                   => TradeOf(placed, n).status = "Cancelled")
          \/ /\ ret' = <<FALSE>>
             /\ orders' = orders
             /\ cancelReqs' = cancelReqs
             /\ placed' = placed]_vars

C22_Witness ==
  /\ call[1] = "cancel_order"
  /\ call[2] \in DOMAIN orders
  /\ ret = <<TRUE>>
  /\ orders[call[2]].status = "CANCELLED"
  /\ TradeOf(placed, orders[call[2]].trade).status = "PendingCancel"

(***************************************************************************)
(* C23: a failed reconnect is a dead end.  The step in which connect()     *)
(* inside _reconnect returns False schedules no reconnect task and leaves  *)
(* the tracked subscriptions as they are; once the tracked reconnect task  *)
(* has failed and the session is down, the session stays down and no task  *)
(* is created unless connect() is called again; and a disconnect event     *)
(* creates at most one task, which runs its delay and its connect()        *)
(* sequence once and then stays finished.                                  *)
(***************************************************************************)
C23_FailedReconnectDeadEnd ==
  [][ /\ \A p \in Tasks :
           (result[p] # <<FALSE>> /\ result'[p] = <<FALSE>>) =>
             /\ created' = created
             /\ _reconnect_task' = _reconnect_task
             /\ subscriptions' = subscriptions
             /\ ~ib_connected'
      /\ (/\ _reconnect_task \in Tasks
          /\ result[_reconnect_task] = <<FALSE>>
          /\ ~ib_connected
          /\ pc'[0] = pc[0]) =>
             /\ ~ib_connected'
             /\ created' = created
             /\ subscriptions' = subscriptions
      /\ created' <= created + 1
      /\ \A p \in Tasks :
           /\ pc[p] = "done" => pc'[p] = "done"
           /\ tries'[p] <= MAX_RECONNECT_ATTEMPTS
           /\ pc'[p] = "delay" => pc[p] \in {"idle", "delay"} ]_vars

C23_Witness ==
  \E p \in Tasks :
    /\ _reconnect_task = p
    /\ result[p] = <<FALSE>>
    /\ tries[p] = MAX_RECONNECT_ATTEMPTS
    /\ _is_running
    /\ ~ib_connected
    /\ Len(subscriptions) > 0

(***************************************************************************)
(* C24: update_position is additive.  In every state the tracked quantity  *)
(* of each symbol is the sum of the deltas applied to it so far and its    *)
(* value is that quantity times the price of the latest call for it; and   *)
(* an update_position call leaves the positions of the other symbols,      *)
(* daily_pnl, current_date and the breaker flag as they were.              *)
(***************************************************************************)
C24_PositionAdditive ==
  /\ [](/\ DOMAIN positions = DOMAIN applied
        /\ \A s \in DOMAIN positions :
             /\ positions[s].quantity = applied[s].net
             /\ positions[s].value = applied[s].net * applied[s].price)
  /\ [][call'[1] = "update_position" =>
          /\ \A s \in DOMAIN positions :
               s # call'[2] => (s \in DOMAIN positions' /\ positions'[s] = positions[s])
          /\ DOMAIN positions' = (DOMAIN positions) \cup {call'[2]}
          /\ daily_pnl' = daily_pnl
          /\ current_date' = current_date
          /\ circuit_breaker_active' = circuit_breaker_active]_vars

C24_Witness ==
  /\ call[1] = "update_position"
  /\ call[3] = -1000
  /\ Cardinality(DOMAIN positions) = 2
  /\ positions[call[2]].quantity = 0
  /\ \E s \in DOMAIN positions : positions[s].quantity = 1000 /\ positions[s].value = 200000
  /\ circuit_breaker_active

(***************************************************************************)
(* C25: the ledger only grows.  No step removes an order from the orders   *)
(* map or a record from the fills list (the old list is a prefix of the    *)
(* new one), and on_fill appends exactly one fill record, built from the   *)
(* trade it was given, and changes no entry of the orders map.             *)
(***************************************************************************)
C25_LedgerOnlyGrows ==
  [][ /\ (DOMAIN orders) \subseteq (DOMAIN orders')
      /\ Len(fills') >= Len(fills)
      /\ \A k \in 1..Len(fills) : fills'[k] = fills[k]
      /\ call'[1] \in {"get_order_status", "reconcile_positions"} =>
           (orders' = orders /\ fills' = fills)
      /\ call'[1] \in {"execute_order", "cancel_order"} => fills' = fills
      /\ call'[1] = "on_fill" =>
           /\ Len(fills') = Len(fills) + 1
           /\ fills'[Len(fills')].order_id = call'[2]
           /\ fills'[Len(fills')].quantity = TradeOf(placed, call'[2]).filled
           /\ fills'[Len(fills')].price = TradeOf(placed, call'[2]).avgFillPrice
           /\ orders' = orders ]_vars

C25_Witness ==
  /\ call[1] = "on_fill"
  /\ Len(fills) = 2
  /\ fills[2].quantity > 0
  /\ orders[str(call[2])].status = "SUBMITTED"
  /\ Cardinality(DOMAIN orders) = 2

(***************************************************************************)
(* C26: in every state reachable from a fresh RiskManager, daily_pnl at or *)
(* below -DAILY_LOSS_LIMIT implies that the circuit breaker is active; so  *)
(* no validate_order call is the one that trips the breaker.               *)
(***************************************************************************)
C26_LossImpliesBreaker ==
  /\ [](daily_pnl <= -DAILY_LOSS_LIMIT => circuit_breaker_active)
  /\ [][call'[1] = "validate_order" =>
          /\ (circuit_breaker_active' => circuit_breaker_active)
          /\ ret' # <<FALSE, <<"Daily loss limit reached", daily_pnl'>>>>]_vars

C26_Witness ==
  /\ daily_pnl = -DAILY_LOSS_LIMIT
  /\ circuit_breaker_active
  /\ call[1] = "validate_order"
  /\ current_date # today

(***************************************************************************)
(* C27: shutdown wins over an in-flight reconnect.  Once disconnect() has  *)
(* run while a reconnect task is outstanding, no later step connects the   *)
(* session or issues a market-data request.                                *)
(***************************************************************************)
C27_ShutdownWins ==
  [][(~_is_running /\ \E p \in Tasks : Outstanding(p)) =>
       /\ ~ib_connected'
       /\ session' = session
       /\ mktData' = << >>]_vars

(***************************************************************************)
(* C28: the status get_order_status reports agrees with the ledger's own   *)
(* record: for an entry whose local status is CANCELLED it reports the     *)
(* order as cancelled (a pending cancellation counted as such), and for an *)
(* entry whose local status is SUBMITTED it reports no terminal status.    *)
(***************************************************************************)
C28_StatusAgreesWithLedger ==
  \A k \in DOMAIN orders :
    LET reported == OrderStatus(orders, placed, k)[1].status
    IN /\ orders[k].status = "CANCELLED" =>
            reported \in {"Cancelled", "PendingCancel", "CANCELLED"}
       /\ orders[k].status = "SUBMITTED" =>
            reported \notin {"Filled", "Cancelled", "Rejected"}

====
